---- MODULE Spec2Model ----
(***************************************************************************)
(* Model of serde-yaml's serializer (src/yaml/src/ser.rs): the Serializer  *)
(* that turns a value into a yaml_rust Yaml node, its five builder         *)
(* sessions (SerializeArray, SerializeTupleVariant, SerializeMap,          *)
(* SerializeStruct, SerializeStructVariant) and the emission entry points  *)
(* to_writer / to_vec / to_string with the FmtToIoWriter shim.             *)
(***************************************************************************)
EXTENDS Integers, Sequences, FiniteSets, TLC

VARIABLES
    kind,       \* which operation is in progress: "idle", "one_shot", a builder type, or an entry point
    status,     \* "idle", "open" (builder session / emission running), "ended", "panicked"
    start,      \* the arguments of the call that opened the session
    array,      \* SerializeArray.array / SerializeTupleVariant.array
    hash,       \* SerializeMap.hash / SerializeStruct.hash / SerializeStructVariant.hash
    next_key,   \* SerializeMap.next_key : Option<Yaml>  (<<>> is None, <<k>> is Some(k))
    name,       \* SerializeTupleVariant.name / SerializeStructVariant.name
    calls,      \* history: the builder calls made so far, with their arguments and returns
    ret,        \* the value the last finished operation returned (a Result), or NoRet
    nwrites,    \* emission: the number of write_str calls the emitter has made
    sink,       \* emission: the bytes the byte sink has accepted
    sent,       \* emission: the bytes of every chunk whose write_str returned Ok
    io_error    \* emission: the io::Error the sink's write returned (<<>> when none)

vars == <<kind, status, start, array, hash, next_key, name, calls, ret,
          nwrites, sink, sent, io_error>>

(***************************************************************************)
(* Bounds of the model.                                                    *)
(***************************************************************************)
\* calls made to one sequence, struct or variant builder session before end()
MaxCalls == 3
\* calls made to one map builder session before end()
MaxMapCalls == 4
\* chunks the emitter writes in one dump
MaxChunks == 2
\* bytes in one chunk
MaxChunkLen == 2

(***************************************************************************)
(* Integers.  A Rust integer of up to 64 bits is the 4-digit number        *)
(* <<h, l2, l1, l0>> in base 2^16, denoting h*2^48 + l2*2^32 + l1*2^16 +   *)
(* l0, with 0 <= l2,l1,l0 < 2^16 and h any integer; every integer has      *)
(* exactly one such form, so equality of forms is equality of numbers.     *)
(***************************************************************************)
Limb == 2^16

NumOf(n) ==
    LET q1 == n \div Limb
        q2 == q1 \div Limb
    IN  <<q2 \div Limb, q2 % Limb, q1 % Limb, n % Limb>>

\* v + k * 2^64
AddPow64(v, k) == <<v[1] + k * Limb, v[2], v[3], v[4]>>

I64Min == <<-(2^15), 0, 0, 0>>
I64Max == <<2^15 - 1, Limb - 1, Limb - 1, Limb - 1>>
U64Max == <<Limb - 1, Limb - 1, Limb - 1, Limb - 1>>

InI64(v) == v[1] >= -(2^15) /\ v[1] < 2^15

\* a saturating conversion instead of `as`
AsI64Saturating(v) == IF v[1] >= 2^15 THEN I64Max ELSE v

\* `v as i64` on an integer of at most 64 bits: sign- or zero-extension for the
\* narrower types, reinterpretation of the bits for i64/u64; numerically the
\* representative of v modulo 2^64 in [-2^63, 2^63).
AsI64(v) == <<((v[1] + 2^15) % Limb) - 2^15, v[2], v[3], v[4]>>

(***************************************************************************)
(* Yaml nodes (yaml_rust::Yaml) and Results.                               *)
(***************************************************************************)
YNull == [y |-> "Null"]
YBoolean(b) == [y |-> "Boolean", b |-> b]
YInteger(n) == [y |-> "Integer", n |-> n]
YString(s) == [y |-> "String", s |-> s]
YArray(a) == [y |-> "Array", a |-> a]
YHash(h) == [y |-> "Hash", h |-> h]

Ok(v) == [ok |-> TRUE, v |-> v]
Err(e) == [ok |-> FALSE, e |-> e]
\* super::error::Error values, by kind and cause
ErrorCustom == [kind |-> "Custom", cause |-> "message"]
ErrorEmit == [kind |-> "Emit", cause |-> "fmt::Error"]
ErrorIo(e) == [kind |-> "Io", cause |-> e]
NoRet == [ok |-> FALSE, e |-> [kind |-> "none", cause |-> "no return"]]
Unit == [y |-> "()"]

\* yaml::Hash is an insertion-ordered map (a linked hash map): inserting a key
\* it holds replaces the value and moves the entry to the back.
HashKeys(h) == {h[i][1] : i \in 1..Len(h)}

HashGet(h, k) == h[CHOOSE i \in 1..Len(h) : h[i][1] = k][2]

HashInsertNoDedup(h, k, v) == Append(h, <<k, v>>)

HashInsert(h, k, v) == Append(SelectSeq(h, LAMBDA p : p[1] # k), <<k, v>>)

(***************************************************************************)
(* Input values: what a Serialize implementation hands to the Serializer.  *)
(* The tag t names the Serializer method the value's serialize() calls;    *)
(* "custom_err" is a value whose serialize() returns Err(Error::custom).   *)
(***************************************************************************)
VBool(b) == [t |-> "bool", b |-> b]
VInt(ty, n) == [t |-> ty, n |-> n]
VChar(c) == [t |-> "char", c |-> c]
VStr(s) == [t |-> "str", s |-> s]
VBytes(bs) == [t |-> "bytes", bs |-> bs]
VUnit == [t |-> "unit"]
VUnitStruct(_name) == [t |-> "unit_struct", name |-> _name]
VUnitVariant(_name, _variant_index, variant) ==
    [t |-> "unit_variant", name |-> _name, idx |-> _variant_index, variant |-> variant]
VNewtypeStruct(_name, value) == [t |-> "newtype_struct", name |-> _name, value |-> value]
VNewtypeVariant(_name, _variant_index, variant, value) ==
    [t |-> "newtype_variant", name |-> _name, idx |-> _variant_index,
     variant |-> variant, value |-> value]
VNone == [t |-> "none"]
VSome(value) == [t |-> "some", value |-> value]
VCustomErr == [t |-> "custom_err"]

SignedTypes == {"i8", "i16", "i32", "i64"}
UnsignedTypes == {"u8", "u16", "u32", "u64"}
IntTypes == SignedTypes \cup UnsignedTypes

\* the least and greatest value of each integer type
TypeMin(ty) ==
    CASE ty = "i8" -> NumOf(-128)
      [] ty = "i16" -> NumOf(-32768)
      [] ty = "i32" -> <<-1, Limb - 1, 2^15, 0>>
      [] ty = "i64" -> I64Min
      [] OTHER -> NumOf(0)

TypeMax(ty) ==
    CASE ty = "i8" -> NumOf(127)
      [] ty = "i16" -> NumOf(32767)
      [] ty = "i32" -> <<0, 0, 2^15 - 1, Limb - 1>>
      [] ty = "i64" -> I64Max
      [] ty = "u8" -> NumOf(255)
      [] ty = "u16" -> NumOf(65535)
      [] ty = "u32" -> <<0, 0, Limb - 1, Limb - 1>>
      [] ty = "u64" -> U64Max

\* the integers of each type the model draws: the ends of the range, the
\* values around zero and, for u64, the values around 2^63
IntsOf(ty) ==
    {TypeMin(ty), TypeMax(ty), NumOf(0), NumOf(1)}
        \cup (IF ty \in SignedTypes THEN {NumOf(-1)} ELSE {})
        \cup (IF ty = "u64" THEN {I64Max, AddPow64(I64Min, 1)} ELSE {})

IntVals == {VInt(ty, n) : <<ty, n>> \in UNION {{ty} \X IntsOf(ty) : ty \in IntTypes}}

EnumNames == {"E", "F"}
VariantIndexes == {0, 1}
VariantNames == {"Foo", "Bar"}
StructNames == {"S"}
FieldNames == {"a", "b"}

Variants == EnumNames \X VariantIndexes \X VariantNames

Atoms ==
    {VBool(TRUE), VBool(FALSE), VChar("a"), VStr("a"), VStr("Foo"), VStr(""),
     VBytes(<<>>), VBytes(<<0, 255>>), VUnit, VNone, VCustomErr}
        \cup IntVals
        \cup {VUnitStruct(n) : n \in StructNames}
        \cup {VUnitVariant(e[1], e[2], e[3]) : e \in Variants}

Wrap(S) ==
    {VSome(x) : x \in S}
        \cup {VNewtypeStruct(n, x) : n \in StructNames, x \in S}
        \cup {VNewtypeVariant(e[1], e[2], e[3], x) : e \in Variants, x \in S}

Nested == {VInt("u8", NumOf(5)), VNone, VCustomErr}

\* every value the one-shot conversion is tried on
Values == Atoms \cup Wrap(Atoms) \cup Wrap({VSome(x) : x \in Nested})

(***************************************************************************)
(* impl ser::Serializer for Serializer: the one-shot methods.              *)
(***************************************************************************)
RECURSIVE to_yaml(_)

serialize_bool(v) == Ok(YBoolean(v))

serialize_i64(v) == Ok(YInteger(v))

serialize_i8(v) == serialize_i64(AsI64(v))

serialize_i16(v) == serialize_i64(AsI64(v))

serialize_i32(v) == serialize_i64(AsI64(v))

serialize_u8(v) == serialize_i64(AsI64(v))

serialize_u16(v) == serialize_i64(AsI64(v))

serialize_u32(v) == serialize_i64(AsI64(v))

serialize_u64(v) == serialize_i64(AsI64(v))

\* char::to_string: the one-character string
serialize_char(value) == Ok(YString(value))

serialize_str(value) == Ok(YString(value))

serialize_bytes(value) ==
    Ok(YArray([i \in 1..Len(value) |-> YInteger(AsI64(NumOf(value[i])))]))

serialize_unit == Ok(YNull)

serialize_unit_struct(_name) == serialize_unit

\* the bug of recording the enum's name instead of the variant's
serialize_unit_variant_by_enum(_name, _variant_index, variant) == Ok(YString(_name))

serialize_unit_variant(_name, _variant_index, variant) == Ok(YString(variant))

singleton_hash(k, v) == YHash(HashInsert(<<>>, k, v))

serialize_newtype_struct(_name, value) == to_yaml(value)

serialize_newtype_variant(_name, _variant_index, variant, value) ==
    LET k == to_yaml(VStr(variant))
        v == to_yaml(value)
    IN  IF ~k.ok THEN k
        ELSE IF ~v.ok THEN v
        ELSE Ok(singleton_hash(k.v, v.v))

serialize_none == serialize_unit

\* the bug of wrapping a present optional in a one-element sequence
serialize_some_wrapped(value) ==
    LET r == to_yaml(value) IN IF r.ok THEN Ok(YArray(<<r.v>>)) ELSE r

serialize_some(value) == to_yaml(value)

\* elem.serialize(Serializer): the value picks the Serializer method
to_yaml(elem) ==
    CASE elem.t = "bool" -> serialize_bool(elem.b)
      [] elem.t = "i8" -> serialize_i8(elem.n)
      [] elem.t = "i16" -> serialize_i16(elem.n)
      [] elem.t = "i32" -> serialize_i32(elem.n)
      [] elem.t = "i64" -> serialize_i64(elem.n)
      [] elem.t = "u8" -> serialize_u8(elem.n)
      [] elem.t = "u16" -> serialize_u16(elem.n)
      [] elem.t = "u32" -> serialize_u32(elem.n)
      [] elem.t = "u64" -> serialize_u64(elem.n)
      [] elem.t = "char" -> serialize_char(elem.c)
      [] elem.t = "str" -> serialize_str(elem.s)
      [] elem.t = "bytes" -> serialize_bytes(elem.bs)
      [] elem.t = "unit" -> serialize_unit
      [] elem.t = "unit_struct" -> serialize_unit_struct(elem.name)
      [] elem.t = "unit_variant" ->
            serialize_unit_variant(elem.name, elem.idx, elem.variant)
      [] elem.t = "newtype_struct" -> serialize_newtype_struct(elem.name, elem.value)
      [] elem.t = "newtype_variant" ->
            serialize_newtype_variant(elem.name, elem.idx, elem.variant, elem.value)
      [] elem.t = "none" -> serialize_none
      [] elem.t = "some" -> serialize_some(elem.value)
      [] elem.t = "custom_err" -> Err(ErrorCustom)

(***************************************************************************)
(* The Serializer methods that open a builder session.  A builder is the   *)
(* record of its struct's fields; Vec::with_capacity and Vec::new both     *)
(* give an empty vector, Hash::new an empty map.                           *)
(***************************************************************************)
None == <<>>
Some(x) == <<x>>

ArrayNew == <<>>
ArrayWithCapacity(len) == <<>>
HashNew == <<>>

serialize_seq(len) ==
    Ok([array |-> IF len = None THEN ArrayNew ELSE ArrayWithCapacity(len[1])])

serialize_seq_fixed_size(len) == serialize_seq(Some(len))

serialize_tuple(len) == serialize_seq(Some(len))

serialize_tuple_struct(_name, len) == serialize_seq(Some(len))

serialize_tuple_variant(_enum, _idx, variant, len) ==
    Ok([name |-> variant, array |-> ArrayWithCapacity(len)])

serialize_map(_len) == Ok([hash |-> HashNew, next_key |-> None])

serialize_struct(_name, _len) == Ok([hash |-> HashNew])

serialize_struct_variant(_enum, _idx, variant, _len) ==
    Ok([name |-> variant, hash |-> HashNew])

(***************************************************************************)
(* Inputs of the builder sessions.                                         *)
(***************************************************************************)
LenHints == {None} \cup {Some(n) : n \in {0, 2}}
Lens == {0, 2}
VariantLens == {2}
ElemVals ==
    {VInt("i8", NumOf(1)), VInt("u64", U64Max), VStr("a"), VNone, VCustomErr}
MapKeyVals == {VStr("a"), VNone, VSome(VUnit), VCustomErr}
MapValueVals == {VInt("i8", NumOf(1)), VBool(TRUE), VCustomErr}

Init ==
    /\ kind = "idle"
    /\ status = "idle"
    /\ start = [op |-> "none"]
    /\ array = <<>>
    /\ hash = <<>>
    /\ next_key = None
    /\ name = ""
    /\ calls = <<>>
    /\ ret = NoRet
    /\ nwrites = 0
    /\ sink = <<>>
    /\ sent = <<>>
    /\ io_error = <<>>

emission_vars == <<nwrites, sink, sent, io_error>>

\* a one-shot conversion: to_yaml(value) on a value that opens no builder
Convert(value) ==
    /\ status = "idle"
    /\ kind' = "to_yaml"
    /\ status' = "ended"
    /\ start' = [op |-> "to_yaml", value |-> value]
    /\ ret' = to_yaml(value)
    /\ UNCHANGED <<array, hash, next_key, name, calls, emission_vars>>

(***************************************************************************)
(* SerializeArray: sequences, fixed-size sequences, tuples, tuple structs. *)
(***************************************************************************)
OpenArray(args, builder) ==
    /\ status = "idle"
    /\ kind' = "SerializeArray"
    /\ status' = "open"
    /\ start' = args
    /\ array' = builder.v.array
    /\ UNCHANGED <<hash, next_key, name, calls, ret, emission_vars>>

Serializer_serialize_seq(len) ==
    OpenArray([op |-> "serialize_seq", len |-> len], serialize_seq(len))

Serializer_serialize_seq_fixed_size(len) ==
    OpenArray([op |-> "serialize_seq_fixed_size", len |-> Some(len)],
              serialize_seq_fixed_size(len))

Serializer_serialize_tuple(len) ==
    OpenArray([op |-> "serialize_tuple", len |-> Some(len)], serialize_tuple(len))

Serializer_serialize_tuple_struct(_name, len) ==
    OpenArray([op |-> "serialize_tuple_struct", len |-> Some(len)],
              serialize_tuple_struct(_name, len))

\* the bug of inserting at the front
SerializeSeq_serialize_element_front(elem) ==
    LET r == to_yaml(elem) IN
    /\ kind = "SerializeArray" /\ status = "open" /\ Len(calls) < MaxCalls
    /\ array' = IF r.ok THEN <<r.v>> \o array ELSE array
    /\ ret' = IF r.ok THEN Ok(Unit) ELSE r
    /\ calls' = Append(calls, [op |-> "serialize_element", arg |-> elem, ok |-> r.ok])
    /\ UNCHANGED <<kind, status, start, hash, next_key, name, emission_vars>>

SerializeSeq_serialize_element(elem) ==
    LET r == to_yaml(elem) IN
    /\ kind = "SerializeArray" /\ status = "open" /\ Len(calls) < MaxCalls
    /\ array' = IF r.ok THEN Append(array, r.v) ELSE array
    /\ ret' = IF r.ok THEN Ok(Unit) ELSE r
    /\ calls' = Append(calls, [op |-> "serialize_element", arg |-> elem, ok |-> r.ok])
    /\ UNCHANGED <<kind, status, start, hash, next_key, name, emission_vars>>

SerializeSeq_end ==
    /\ kind = "SerializeArray" /\ status = "open"
    /\ status' = "ended"
    /\ ret' = Ok(YArray(array))
    /\ UNCHANGED <<kind, start, array, hash, next_key, name, calls, emission_vars>>

SerializeTuple_serialize_element(elem) ==
    /\ start.op = "serialize_tuple"
    /\ SerializeSeq_serialize_element(elem)

SerializeTuple_end ==
    /\ start.op = "serialize_tuple"
    /\ SerializeSeq_end

SerializeTupleStruct_serialize_field(value) ==
    /\ start.op = "serialize_tuple_struct"
    /\ SerializeSeq_serialize_element(value)

SerializeTupleStruct_end ==
    /\ start.op = "serialize_tuple_struct"
    /\ SerializeSeq_end

(***************************************************************************)
(* SerializeTupleVariant.                                                  *)
(***************************************************************************)
Serializer_serialize_tuple_variant(_enum, _idx, variant, len) ==
    LET b == serialize_tuple_variant(_enum, _idx, variant, len) IN
    /\ status = "idle"
    /\ kind' = "SerializeTupleVariant"
    /\ status' = "open"
    /\ start' = [op |-> "serialize_tuple_variant", enum |-> _enum, idx |-> _idx,
                 variant |-> variant, len |-> Some(len)]
    /\ name' = b.v.name
    /\ array' = b.v.array
    /\ UNCHANGED <<hash, next_key, calls, ret, emission_vars>>

SerializeTupleVariant_serialize_field(v) ==
    LET r == to_yaml(v) IN
    /\ kind = "SerializeTupleVariant" /\ status = "open" /\ Len(calls) < MaxCalls
    /\ array' = IF r.ok THEN Append(array, r.v) ELSE array
    /\ ret' = IF r.ok THEN Ok(Unit) ELSE r
    /\ calls' = Append(calls, [op |-> "serialize_field", arg |-> v, ok |-> r.ok])
    /\ UNCHANGED <<kind, status, start, hash, next_key, name, emission_vars>>

SerializeTupleVariant_end ==
    LET k == to_yaml(VStr(name)) IN
    /\ kind = "SerializeTupleVariant" /\ status = "open"
    /\ status' = "ended"
    /\ ret' = IF k.ok THEN Ok(singleton_hash(k.v, YArray(array))) ELSE k
    /\ UNCHANGED <<kind, start, array, hash, next_key, name, calls, emission_vars>>

(***************************************************************************)
(* SerializeMap.                                                           *)
(***************************************************************************)
Serializer_serialize_map(_len) ==
    LET b == serialize_map(_len) IN
    /\ status = "idle"
    /\ kind' = "SerializeMap"
    /\ status' = "open"
    /\ start' = [op |-> "serialize_map", len |-> _len]
    /\ hash' = b.v.hash
    /\ next_key' = b.v.next_key
    /\ UNCHANGED <<array, name, calls, ret, emission_vars>>

SerializeMap_serialize_key(key) ==
    LET r == to_yaml(key) IN
    /\ kind = "SerializeMap" /\ status = "open" /\ Len(calls) < MaxMapCalls
    /\ next_key' = IF r.ok THEN Some(r.v) ELSE next_key
    /\ ret' = IF r.ok THEN Ok(Unit) ELSE r
    /\ calls' = Append(calls, [op |-> "serialize_key", arg |-> key, ok |-> r.ok])
    /\ UNCHANGED <<kind, status, start, array, hash, name, emission_vars>>

\* the bug of inserting under a Null key instead of panicking
SerializeMap_serialize_value_lenient(value) ==
    LET r == to_yaml(value)
        key == IF next_key = None THEN YNull ELSE next_key[1]
    IN
    /\ kind = "SerializeMap" /\ status = "open" /\ Len(calls) < MaxMapCalls
    /\ next_key' = None
    /\ hash' = IF r.ok THEN HashInsert(hash, key, r.v) ELSE hash
    /\ ret' = IF r.ok THEN Ok(Unit) ELSE r
    /\ calls' = Append(calls, [op |-> "serialize_value", arg |-> value, ok |-> r.ok])
    /\ UNCHANGED <<kind, status, start, array, name, emission_vars>>

\* the bug of inserting the pair the wrong way round
SerializeMap_serialize_value_swapped(value) ==
    LET r == to_yaml(value) IN
    /\ kind = "SerializeMap" /\ status = "open" /\ Len(calls) < MaxMapCalls
    /\ next_key' = None
    /\ IF next_key = None
       THEN /\ status' = "panicked"
            /\ ret' = NoRet
            /\ calls' = Append(calls, [op |-> "serialize_value", arg |-> value, ok |-> FALSE])
            /\ UNCHANGED hash
       ELSE /\ hash' = IF r.ok THEN HashInsert(hash, r.v, next_key[1]) ELSE hash
            /\ ret' = IF r.ok THEN Ok(Unit) ELSE r
            /\ calls' = Append(calls, [op |-> "serialize_value", arg |-> value, ok |-> r.ok])
            /\ UNCHANGED status
    /\ UNCHANGED <<kind, start, array, name, emission_vars>>

\* the bug of leaving the key pending after the insert
SerializeMap_serialize_value_keeps_key(value) ==
    LET r == to_yaml(value) IN
    /\ kind = "SerializeMap" /\ status = "open" /\ Len(calls) < MaxMapCalls
    /\ IF next_key = None
       THEN /\ status' = "panicked"
            /\ ret' = NoRet
            /\ calls' = Append(calls, [op |-> "serialize_value", arg |-> value, ok |-> FALSE])
            /\ UNCHANGED <<hash, next_key>>
       ELSE /\ hash' = IF r.ok THEN HashInsert(hash, next_key[1], r.v) ELSE hash
            /\ ret' = IF r.ok THEN Ok(Unit) ELSE r
            /\ calls' = Append(calls, [op |-> "serialize_value", arg |-> value, ok |-> r.ok])
            /\ UNCHANGED <<status, next_key>>
    /\ UNCHANGED <<kind, start, array, name, emission_vars>>

\* next_key.take() empties next_key before the value is converted; with no key
\* the call panics and returns nothing
SerializeMap_serialize_value(value) ==
    LET r == to_yaml(value) IN
    /\ kind = "SerializeMap" /\ status = "open" /\ Len(calls) < MaxMapCalls
    /\ next_key' = None
    /\ IF next_key = None
       THEN /\ status' = "panicked"
            /\ ret' = NoRet
            /\ calls' = Append(calls, [op |-> "serialize_value", arg |-> value, ok |-> FALSE])
            /\ UNCHANGED hash
       ELSE /\ hash' = IF r.ok THEN HashInsert(hash, next_key[1], r.v) ELSE hash
            /\ ret' = IF r.ok THEN Ok(Unit) ELSE r
            /\ calls' = Append(calls, [op |-> "serialize_value", arg |-> value, ok |-> r.ok])
            /\ UNCHANGED status
    /\ UNCHANGED <<kind, start, array, name, emission_vars>>

SerializeMap_end ==
    /\ kind = "SerializeMap" /\ status = "open"
    /\ status' = "ended"
    /\ ret' = Ok(YHash(hash))
    /\ UNCHANGED <<kind, start, array, hash, next_key, name, calls, emission_vars>>

(***************************************************************************)
(* SerializeStruct and SerializeStructVariant.                             *)
(***************************************************************************)
Serializer_serialize_struct(_name, _len) ==
    LET b == serialize_struct(_name, _len) IN
    /\ status = "idle"
    /\ kind' = "SerializeStruct"
    /\ status' = "open"
    /\ start' = [op |-> "serialize_struct", len |-> Some(_len)]
    /\ hash' = b.v.hash
    /\ UNCHANGED <<array, next_key, name, calls, ret, emission_vars>>

\* the bug of accumulating the pairs in a list, with no look-up of the key
SerializeStruct_serialize_field_push(key, value) ==
    LET k == to_yaml(VStr(key))
        r == IF k.ok THEN to_yaml(value) ELSE k
    IN
    /\ kind = "SerializeStruct" /\ status = "open" /\ Len(calls) < MaxCalls
    /\ hash' = IF r.ok THEN HashInsertNoDedup(hash, k.v, r.v) ELSE hash
    /\ ret' = IF r.ok THEN Ok(Unit) ELSE r
    /\ calls' = Append(calls, [op |-> "serialize_field", key |-> key, arg |-> value,
                               ok |-> r.ok])
    /\ UNCHANGED <<kind, status, start, array, next_key, name, emission_vars>>

SerializeStruct_serialize_field(key, value) ==
    LET k == to_yaml(VStr(key))
        r == IF k.ok THEN to_yaml(value) ELSE k
    IN
    /\ kind = "SerializeStruct" /\ status = "open" /\ Len(calls) < MaxCalls
    /\ hash' = IF r.ok THEN HashInsert(hash, k.v, r.v) ELSE hash
    /\ ret' = IF r.ok THEN Ok(Unit) ELSE r
    /\ calls' = Append(calls, [op |-> "serialize_field", key |-> key, arg |-> value,
                               ok |-> r.ok])
    /\ UNCHANGED <<kind, status, start, array, next_key, name, emission_vars>>

SerializeStruct_end ==
    /\ kind = "SerializeStruct" /\ status = "open"
    /\ status' = "ended"
    /\ ret' = Ok(YHash(hash))
    /\ UNCHANGED <<kind, start, array, hash, next_key, name, calls, emission_vars>>

Serializer_serialize_struct_variant(_enum, _idx, variant, _len) ==
    LET b == serialize_struct_variant(_enum, _idx, variant, _len) IN
    /\ status = "idle"
    /\ kind' = "SerializeStructVariant"
    /\ status' = "open"
    /\ start' = [op |-> "serialize_struct_variant", enum |-> _enum, idx |-> _idx,
                 variant |-> variant, len |-> Some(_len)]
    /\ name' = b.v.name
    /\ hash' = b.v.hash
    /\ UNCHANGED <<array, next_key, calls, ret, emission_vars>>

SerializeStructVariant_serialize_field(field, v) ==
    LET k == to_yaml(VStr(field))
        r == IF k.ok THEN to_yaml(v) ELSE k
    IN
    /\ kind = "SerializeStructVariant" /\ status = "open" /\ Len(calls) < MaxCalls
    /\ hash' = IF r.ok THEN HashInsert(hash, k.v, r.v) ELSE hash
    /\ ret' = IF r.ok THEN Ok(Unit) ELSE r
    /\ calls' = Append(calls, [op |-> "serialize_field", key |-> field, arg |-> v,
                               ok |-> r.ok])
    /\ UNCHANGED <<kind, status, start, array, next_key, name, emission_vars>>

SerializeStructVariant_end ==
    LET k == to_yaml(VStr(name)) IN
    /\ kind = "SerializeStructVariant" /\ status = "open"
    /\ status' = "ended"
    /\ ret' = IF k.ok THEN Ok(singleton_hash(k.v, YHash(hash))) ELSE k
    /\ UNCHANGED <<kind, start, array, hash, next_key, name, calls, emission_vars>>

(***************************************************************************)
(* Emission: to_writer, to_vec, to_string and the FmtToIoWriter shim.      *)
(* YamlEmitter::dump is the external emission engine: it makes one or more *)
(* write_str calls with text chunks of its choosing and stops at the first *)
(* one that returns Err.  Chunks are sequences of bytes of ASCII text.     *)
(***************************************************************************)
Bytes == {45, 10}
IoErrors == {"BrokenPipe", "WriteZero"}
EntryPoints == {"to_writer", "to_vec", "to_string"}
WriterVals == {VBool(TRUE), VCustomErr}

SeqsUpTo(S, n) == UNION {[1..k -> S] : k \in 1..n}

Chunks == SeqsUpTo(Bytes, MaxChunkLen)

\* what io::Write::write may return for buffer s: a caller's sink may fail or
\* accept any prefix; the Vec of to_vec and to_string accepts everything
SinkWrite(entry, s) ==
    IF entry = "to_writer"
    THEN {Err(e) : e \in IoErrors} \cup {Ok(n) : n \in 0..Len(s)}
    ELSE {Ok(Len(s))}

\* String::from_utf8 on bytes of ASCII text
FromUtf8(vec) ==
    IF \A i \in 1..Len(vec) : vec[i] < 128
    THEN Ok([string |-> vec])
    ELSE Err([kind |-> "FromUtf8", cause |-> "invalid utf-8"])

\* the value the entry point returns once dump has returned Ok
EntryReturn(entry, vec) ==
    CASE entry = "to_writer" -> Ok(Unit)
      [] entry = "to_vec" -> Ok([vec |-> vec])
      [] entry = "to_string" -> FromUtf8(vec)

\* FmtToIoWriter::write_str on the result w of self.writer.write(s.as_bytes())
write_str(w) == IF ~w.ok THEN Err("fmt::Error") ELSE Ok(Unit)

\* let doc = try!(to_yaml(value)), up to the emitter's first write
Begin(entry, value) ==
    LET doc == to_yaml(value) IN
    /\ status = "idle"
    /\ kind' = entry
    /\ start' = [op |-> entry, value |-> value]
    /\ status' = IF doc.ok THEN "open" ELSE "ended"
    /\ ret' = IF doc.ok THEN NoRet ELSE doc
    /\ UNCHANGED <<array, hash, next_key, name, calls, emission_vars>>

to_writer(value) == Begin("to_writer", value)

to_vec(value) == Begin("to_vec", value)

to_string(value) == Begin("to_string", value)

\* one write_str call of the emitter with chunk s; the sink answers w; `more`
\* tells whether the emitter has further chunks.  On Err the emitter returns
\* EmitError::FmtError, which to_writer's try! turns into its Error; after the
\* last chunk dump returns Ok and the entry point returns.
FmtToIoWriter_write_str(s, w, more) ==
    LET r == write_str(w)
        last == ~more \/ nwrites + 1 >= MaxChunks
        got == IF w.ok THEN sink \o SubSeq(s, 1, w.v) ELSE sink
    IN
    /\ kind \in EntryPoints /\ status = "open" /\ nwrites < MaxChunks
    /\ w \in SinkWrite(kind, s)
    /\ nwrites' = nwrites + 1
    /\ sink' = got
    /\ io_error' = IF w.ok THEN io_error ELSE <<w.e>>
    /\ sent' = IF r.ok THEN sent \o s ELSE sent
    /\ status' = IF ~r.ok \/ last THEN "ended" ELSE "open"
    /\ ret' = IF ~r.ok THEN Err(ErrorEmit)
              ELSE IF last THEN EntryReturn(kind, got)
              ELSE ret
    /\ UNCHANGED <<kind, start, array, hash, next_key, name, calls>>

(***************************************************************************)
(* The specification.                                                      *)
(***************************************************************************)
Next ==
    \/ \E value \in Values : Convert(value)
    \/ \E len \in LenHints : Serializer_serialize_seq(len)
    \/ \E len \in Lens : Serializer_serialize_seq_fixed_size(len)
    \/ \E len \in Lens : Serializer_serialize_tuple(len)
    \/ \E _name \in StructNames, len \in Lens :
            Serializer_serialize_tuple_struct(_name, len)
    \/ \E elem \in ElemVals :
            /\ start.op \in {"serialize_seq", "serialize_seq_fixed_size"}
            /\ SerializeSeq_serialize_element(elem)
    \/ /\ start.op \in {"serialize_seq", "serialize_seq_fixed_size"}
       /\ SerializeSeq_end
    \/ \E elem \in ElemVals : SerializeTuple_serialize_element(elem)
    \/ SerializeTuple_end
    \/ \E value \in ElemVals : SerializeTupleStruct_serialize_field(value)
    \/ SerializeTupleStruct_end
    \/ \E e \in Variants, len \in VariantLens :
            Serializer_serialize_tuple_variant(e[1], e[2], e[3], len)
    \/ \E v \in ElemVals : SerializeTupleVariant_serialize_field(v)
    \/ SerializeTupleVariant_end
    \/ \E _len \in LenHints : Serializer_serialize_map(_len)
    \/ \E key \in MapKeyVals : SerializeMap_serialize_key(key)
    \/ \E value \in MapValueVals : SerializeMap_serialize_value(value)
    \/ SerializeMap_end
    \/ \E _name \in StructNames, _len \in Lens : Serializer_serialize_struct(_name, _len)
    \/ \E key \in FieldNames, value \in MapValueVals :
            SerializeStruct_serialize_field(key, value)
    \/ SerializeStruct_end
    \/ \E e \in Variants, _len \in VariantLens :
            Serializer_serialize_struct_variant(e[1], e[2], e[3], _len)
    \/ \E field \in FieldNames, v \in MapValueVals :
            SerializeStructVariant_serialize_field(field, v)
    \/ SerializeStructVariant_end
    \/ \E value \in WriterVals : to_writer(value)
    \/ \E value \in WriterVals : to_vec(value)
    \/ \E value \in WriterVals : to_string(value)
    \/ \E s \in Chunks, more \in BOOLEAN :
            \E w \in SinkWrite(kind, s) : FmtToIoWriter_write_str(s, w, more)

Spec == Init /\ [][Next]_vars

(***************************************************************************)
(* What the history of a session says: the nodes of the calls that         *)
(* returned Ok, in call order.                                             *)
(***************************************************************************)
OkCalls(cs) == SelectSeq(cs, LAMBDA c : c.ok)

Converted(cs) == [i \in 1..Len(OkCalls(cs)) |-> to_yaml(OkCalls(cs)[i].arg).v]

NoDuplicateKeys(h) == \A i, j \in 1..Len(h) : h[i][1] = h[j][1] => i = j

(***************************************************************************)
(* C3: a Sequence Builder opened with any length hint returns, after N     *)
(* successful appends, the Sequence of exactly the N converted elements in *)
(* call order; a failed append adds nothing.                               *)
(***************************************************************************)
C3_SequenceInCallOrder ==
    kind = "SerializeArray" =>
        /\ array = Converted(calls)
        /\ status = "ended" => ret = Ok(YArray(Converted(calls)))

\* two elements appended to a builder whose hint said zero
C3_Witness ==
    /\ kind = "SerializeArray" /\ status = "ended"
    /\ start.len = Some(0)
    /\ Len(ret.v.a) = 2
    /\ ret.v.a[1] # ret.v.a[2]

(***************************************************************************)
(* C1: serialize_value on a SerializeMap with no pending key panics: it    *)
(* returns neither Ok nor Err and inserts no pair.                         *)
(***************************************************************************)
C1_ValueWithoutKeyPanics ==
    [][(/\ kind = "SerializeMap" /\ status = "open" /\ next_key = None
        /\ Len(calls') = Len(calls) + 1
        /\ calls'[Len(calls')].op = "serialize_value")
       => (status' = "panicked" /\ ret' = NoRet /\ hash' = hash)]_vars

\* a value call panicked after a pair had been inserted
C1_Witness ==
    /\ kind = "SerializeMap" /\ status = "panicked"
    /\ Len(hash) = 1
    /\ calls[Len(calls)].op = "serialize_value"

(***************************************************************************)
(* Map sessions: what the history says.                                    *)
(***************************************************************************)
\* the session so far is K key calls each followed by its value call, all Ok
Alternating(cs) ==
    /\ Len(cs) % 2 = 0
    /\ \A i \in 1..Len(cs) :
        /\ cs[i].ok
        /\ cs[i].op = IF i % 2 = 1 THEN "serialize_key" ELSE "serialize_value"

\* the K pairs such a session was fed, converted, in the order supplied
FedPairs(cs) ==
    [i \in 1..(Len(cs) \div 2) |-> <<to_yaml(cs[2 * i - 1].arg).v, to_yaml(cs[2 * i].arg).v>>]

DistinctKeyInputs(cs) ==
    \A i, j \in 1..(Len(cs) \div 2) : cs[2 * i - 1].arg = cs[2 * j - 1].arg => i = j

DistinctKeyNodes(cs) ==
    \A i, j \in 1..(Len(cs) \div 2) :
        to_yaml(cs[2 * i - 1].arg) = to_yaml(cs[2 * j - 1].arg) => i = j

(***************************************************************************)
(* C2 as stated: K pairs whose keys are pairwise distinct values, fed as   *)
(* alternating serialize_key / serialize_value calls, give on end() the    *)
(* Mapping of exactly those K pairs in the order supplied.                 *)
(***************************************************************************)
C2_DistinctInputKeys ==
    (/\ kind = "SerializeMap" /\ status = "ended"
     /\ Alternating(calls) /\ DistinctKeyInputs(calls))
        => ret = Ok(YHash(FedPairs(calls)))

(***************************************************************************)
(* C2 amended: the same, for keys whose converted nodes are pairwise       *)
(* distinct (distinct values such as None and Some(()) convert to the same *)
(* node and share one pair).                                               *)
(***************************************************************************)
C2_DistinctKeyNodes ==
    (/\ kind = "SerializeMap" /\ status = "ended"
     /\ Alternating(calls) /\ DistinctKeyNodes(calls))
        => ret = Ok(YHash(FedPairs(calls)))

\* a session of two pairs with different key nodes has ended
C2_Witness ==
    /\ kind = "SerializeMap" /\ status = "ended"
    /\ Alternating(calls) /\ DistinctKeyNodes(calls)
    /\ Len(calls) = 4
    /\ Len(ret.v.h) = 2

(***************************************************************************)
(* C10: the pending key and the committed keys, from the history.          *)
(***************************************************************************)
\* the index of the last serialize_key call among the first n calls (0: none)
LastKeyCall(cs, n) ==
    LET S == {j \in 1..n : cs[j].op = "serialize_key"}
    IN  IF S = {} THEN 0 ELSE CHOOSE j \in S : \A k \in S : k <= j

\* the index of the last serialize_key call that returned Ok among the first n
LastOkKeyCall(cs, n) ==
    LET S == {j \in 1..n : cs[j].op = "serialize_key" /\ cs[j].ok}
    IN  IF S = {} THEN 0 ELSE CHOOSE j \in S : \A k \in S : k <= j

\* the index of the last serialize_value call among the first n calls (0: none)
LastValueCall(cs, n) ==
    LET S == {j \in 1..n : cs[j].op = "serialize_value"}
    IN  IF S = {} THEN 0 ELSE CHOOSE j \in S : \A k \in S : k <= j

\* the key pending after the first n calls: that of the last successful
\* serialize_key, unless a serialize_value came after it
PendingAfter(cs, n) ==
    LET j == LastOkKeyCall(cs, n)
    IN  IF j = 0 \/ LastValueCall(cs, n) > j THEN None ELSE Some(to_yaml(cs[j].arg).v)

\* the serialize_value calls that inserted a pair
Inserts(cs) ==
    {i \in 1..Len(cs) : cs[i].op = "serialize_value" /\ cs[i].ok}

\* the keys those calls committed
CommittedKeys(cs) == {PendingAfter(cs, i - 1)[1] : i \in Inserts(cs)}

(***************************************************************************)
(* C10 as stated, on the pair a successful serialize_value has just        *)
(* inserted: its key is the key of the most recent serialize_key call.     *)
(***************************************************************************)
C10_KeyOfMostRecentCall ==
    (/\ kind = "SerializeMap" /\ Len(calls) > 0
     /\ calls[Len(calls)].op = "serialize_value" /\ calls[Len(calls)].ok)
        => LET j == LastKeyCall(calls, Len(calls))
           IN  /\ j > 0
               /\ to_yaml(calls[j].arg).ok
               /\ hash[Len(hash)][1] = to_yaml(calls[j].arg).v

(***************************************************************************)
(* C10 amended: at most one key is pending, the key of the most recent     *)
(* serialize_key call that returned Ok since the last serialize_value;     *)
(* every pair was inserted by a successful serialize_value under the key   *)
(* pending at that call, so a key that was replaced, or left pending at    *)
(* end(), gives no pair, and the pairs never outnumber the successful      *)
(* serialize_value calls.                                                  *)
(***************************************************************************)
C10_PendingKeyDiscipline ==
    kind = "SerializeMap" =>
        /\ Len(next_key) <= 1
        /\ status # "panicked" => next_key = PendingAfter(calls, Len(calls))
        /\ HashKeys(hash) = CommittedKeys(calls)
        /\ Len(hash) <= Cardinality(Inserts(calls))
        /\ (Len(calls) > 0 /\ calls[Len(calls)].op = "serialize_value"
                /\ calls[Len(calls)].ok)
            => hash[Len(hash)] = <<PendingAfter(calls, Len(calls) - 1)[1],
                                   to_yaml(calls[Len(calls)].arg).v>>
        /\ status = "ended" => ret = Ok(YHash(hash))

\* a key was replaced before any value, another was left pending at end()
C10_Witness ==
    /\ kind = "SerializeMap" /\ status = "ended"
    /\ Len(calls) = 4
    /\ calls[1].op = "serialize_key" /\ calls[1].ok
    /\ calls[2].op = "serialize_key" /\ calls[2].ok
    /\ calls[3].op = "serialize_value" /\ calls[3].ok
    /\ calls[4].op = "serialize_key" /\ calls[4].ok
    /\ to_yaml(calls[1].arg) # to_yaml(calls[2].arg)
    /\ to_yaml(calls[4].arg) # to_yaml(calls[2].arg)
    /\ next_key # None
    /\ Len(ret.v.h) = 1

(***************************************************************************)
(* C7: the mapping a Map, Struct or Struct-Variant builder accumulates     *)
(* holds at most one pair per key after every call, also when the same key *)
(* is supplied more than once, and so does the Mapping end() returns.      *)
(***************************************************************************)
C7_KeysUnique ==
    kind \in {"SerializeMap", "SerializeStruct", "SerializeStructVariant"} =>
        /\ NoDuplicateKeys(hash)
        /\ (status = "ended" /\ kind # "SerializeStructVariant")
            => NoDuplicateKeys(ret.v.h)
        /\ (status = "ended" /\ kind = "SerializeStructVariant")
            => NoDuplicateKeys(ret.v.h) /\ NoDuplicateKeys(ret.v.h[1][2].h)

\* a struct session set the same field twice and ended with one pair
C7_Witness ==
    /\ kind = "SerializeStruct" /\ status = "ended"
    /\ \E i, j \in 1..Len(calls) :
        i < j /\ calls[i].ok /\ calls[j].ok /\ calls[i].key = calls[j].key
    /\ Len(ret.v.h) = 1

(***************************************************************************)
(* C4: a unit variant converts to String(variant); a newtype, tuple or     *)
(* struct variant converts to a Mapping of the one pair String(variant)    *)
(* to the converted field, to the Sequence of the converted fields in call *)
(* order, or to the Mapping of String(field name) to the converted value;  *)
(* the result is built from the variant's name and payload alone, whatever *)
(* the enum's name and the variant's index.                                *)
(***************************************************************************)
\* the value the last successful serialize_field call gave field f
LastFieldNode(cs, f) ==
    LET S == {j \in 1..Len(cs) : cs[j].key = f /\ cs[j].ok}
    IN  to_yaml(cs[CHOOSE j \in S : \A k \in S : k <= j].arg).v

FieldsSet(cs) == {cs[j].key : j \in {i \in 1..Len(cs) : cs[i].ok}}

C4_EnumRepresentation ==
    /\ (kind = "to_yaml" /\ start.value.t = "unit_variant")
        => ret = Ok(YString(start.value.variant))
    /\ (kind = "to_yaml" /\ start.value.t = "newtype_variant")
        => LET field == to_yaml(start.value.value)
           IN  ret = IF field.ok
                     THEN Ok(YHash(<< <<YString(start.value.variant), field.v>> >>))
                     ELSE field
    /\ (kind = "SerializeTupleVariant" /\ status = "ended")
        => ret = Ok(YHash(<< <<YString(start.variant), YArray(Converted(calls))>> >>))
    /\ (kind = "SerializeStructVariant" /\ status = "ended")
        => /\ ret.ok
           /\ ret.v.y = "Hash"
           /\ Len(ret.v.h) = 1
           /\ ret.v.h[1][1] = YString(start.variant)
           /\ ret.v.h[1][2].y = "Hash"
           /\ LET fields == ret.v.h[1][2].h
              IN  /\ NoDuplicateKeys(fields)
                  /\ HashKeys(fields) = {YString(f) : f \in FieldsSet(calls)}
                  /\ \A f \in FieldsSet(calls) :
                        HashGet(fields, YString(f)) = LastFieldNode(calls, f)

\* a struct variant of two fields has been converted
C4_Witness ==
    /\ kind = "SerializeStructVariant" /\ status = "ended"
    /\ start.enum = "E" /\ start.idx = 1 /\ start.variant = "Foo"
    /\ Len(ret.v.h[1][2].h) = 2

(***************************************************************************)
(* C5: an integer of any width and signedness converts to Ok(Integer) of   *)
(* a value in the i64 range: the input's value when that is at most        *)
(* 2^63-1, and v - 2^64 for a u64 input v above it.                        *)
(***************************************************************************)
C5_IntegerNormalisation ==
    (kind = "to_yaml" /\ start.value.t \in IntTypes) =>
        LET v == start.value.n IN
        /\ ret.ok
        /\ ret.v.y = "Integer"
        /\ InI64(ret.v.n)
        /\ IF v[1] < 2^15
           THEN ret.v.n = v
           ELSE start.value.t = "u64" /\ ret.v.n = AddPow64(v, -1)

\* u64::MAX has been converted, to -1
C5_Witness ==
    /\ kind = "to_yaml" /\ status = "ended"
    /\ start.value = VInt("u64", U64Max)
    /\ ret = Ok(YInteger(NumOf(-1)))

(***************************************************************************)
(* C8: Some(x) and a newtype struct around x convert to what x converts    *)
(* to; None, the unit value and a unit struct convert to Null.             *)
(***************************************************************************)
C8_TransparentWrappers ==
    kind = "to_yaml" =>
        /\ start.value.t \in {"some", "newtype_struct"}
            => ret = to_yaml(start.value.value)
        /\ start.value.t \in {"none", "unit", "unit_struct"}
            => ret = Ok(YNull)

\* Some(x) has been converted for an x that does not convert to Null
C8_Witness ==
    /\ kind = "to_yaml" /\ status = "ended"
    /\ start.value.t = "some"
    /\ ret.ok
    /\ ret.v.y = "Integer"

(***************************************************************************)
(* C6 as stated: when the sink's write fails, the entry point returns an   *)
(* Err that wraps the sink's io::Error.                                    *)
(***************************************************************************)
C6_IoErrorWrapped ==
    (kind \in EntryPoints /\ io_error # <<>>) =>
        /\ status = "ended"
        /\ ~ret.ok
        /\ ret.e = ErrorIo(io_error[1])

(***************************************************************************)
(* C9 as stated: whenever write_str returns Ok the sink has received all   *)
(* the bytes of the chunk, so the sink holds the concatenation of the      *)
(* chunks written.                                                         *)
(***************************************************************************)
C9_SinkHoldsAllChunks ==
    kind \in EntryPoints => sink = sent

====
